---- MODULE Spec2Model ----
(***************************************************************************)
(* Model of the g3-resolver runtime actor (lib/g3-resolver/src/runtime.rs):*)
(* the cache, trash and in-flight ("doing") maps of each address family,   *)
(* the expiry DelayQueues, the three channels and the poll loop.           *)
(***************************************************************************)
EXTENDS Integers, Sequences, FiniteSets, TLC

\* ------------------------------------------------------------------ bounds
MaxTime == 2          \* the clock runs over 0..MaxTime
MaxReqs == 3          \* resolve requests ever sent (one reply channel each)
MaxReqsWide == 2      \* resolve requests ever sent when both families are used
MaxCmds == 1          \* control commands ever sent
MaxReqsLife == 1      \* resolve requests ever sent in the life-cycle runs
MaxCmdsLife == 2      \* control commands ever sent in the life-cycle runs
MaxTtl == 1           \* a record expires at most MaxTtl after it is answered
MaxGrace == 1         \* a record vanishes at most MaxGrace after it expires
MaxBufs == 2          \* buffers the reader of a chunked encoder yields before EOF
MaxUpserts == 3       \* records put in the cache when update_cache runs on its own

Families == {4, 6}
Domains == {"a"}
Callers == 1..MaxReqs

NoTime == -1          \* Option<Instant>::None
NoDriver == 0         \* Option<BoxResolverDriver>::None

\* ResolverConfig: the driver it builds (drv), whether the driver can be built
\* (ok), and runtime.batch_request_count (batch).
Configs ==
    { [drv |-> 1, ok |-> TRUE, batch |-> 3],
      [drv |-> 2, ok |-> TRUE, batch |-> 2],
      [drv |-> 3, ok |-> FALSE, batch |-> 2] }

\* The configs the actor is built with.
InitConfigs == {c \in Configs : c.batch = 3 \/ ~c.ok}

VARIABLES
    now,        \* tokio::time::Instant::now()
    pc,         \* position of the actor in poll_loop, or its final result
    cnt,        \* requests polled so far by the for loop of this iteration
    woken,      \* the task has been woken and will be polled
    wk,         \* the event sources that hold the task's waker
    config,     \* self.config
    driver,     \* self.driver
    ctlQ,       \* ctl_receiver: commands sent and not yet received
    ctlOpen,    \* some control sender is alive
    reqQ,       \* req_receiver: requests sent and not yet received
    reqOpen,    \* some request sender is alive
    rspQ,       \* rsp_receiver: driver responses sent and not yet received
    querying,   \* driver queries dispatched and not yet answered
    cache,      \* cache_v4 / cache_v6
    trash,      \* trash_v4 / trash_v6
    doing,      \* doing_v4 / doing_v6
    expired,    \* expired_v4 / expired_v6
    replies,    \* what each caller's oneshot receiver has been sent
    nreq,       \* requests sent so far
    ncmd,       \* commands sent so far
    nq,         \* driver queries dispatched so far
    latest,     \* per key, the last record the common path of handle_rsp took
    refreshed,  \* the ids of the queries dispatched as background refreshes
    ev,         \* what the last step of the actor did
    gone,       \* the callers that have dropped their oneshot receiver
    abandoned,  \* the ids of the records sent to a waiter that had gone
    enc,        \* a ChunkedEncodeTransferInternal, its reader and its writer
    iter,       \* the iteration of the loop in progress: the Update its control
                \* step applied, whether the trash was swept ahead of it, its
                \* local update_mem_stats and its calls of update_mem_stats()
    mem         \* stats.memory_a / stats.memory_aaaa: the length gauges

vars == <<now, pc, cnt, woken, wk, config, driver, ctlQ, ctlOpen, reqQ, reqOpen,
          rspQ, querying, cache, trash, doing, expired, replies, nreq, ncmd, nq,
          latest, refreshed, ev, gone, abandoned, enc, iter, mem>>

\* ------------------------------------------------------------- hash maps
EmptyMap == [x \in {} |-> x]
Has(m, k) == k \in DOMAIN m
MapPut(m, k, v) == [x \in (DOMAIN m) \cup {k} |-> IF x = k THEN v ELSE m[x]]
MapDel(m, k) == [x \in (DOMAIN m) \ {k} |-> m[x]]

\* --------------------------------------------------------------- records
\* A ResolvedRecord as the runtime reads it: domain, is_acceptable(), expire,
\* vanish; id tells the records of different driver answers apart.
Record(id, d, ok, e, v) ==
    [id |-> id, domain |-> d, ok |-> ok, expire |-> e, vanish |-> v]

\* The records a driver can answer with at time t: expire absent or within
\* MaxTtl of t, vanish absent or strictly after expire.
RecordTimes(t) ==
    {<<NoTime, NoTime>>}
      \cup {<<e, NoTime>> : e \in t..(t + MaxTtl)}
      \cup {<<e, e + g>> : e \in t..(t + MaxTtl), g \in 1..MaxGrace}

\* ------------------------------------------------------- expiry DelayQueue
\* A DelayQueue is a set of slots [key, dom, at]; insert_at takes a free key.
FreeKey(x) == CHOOSE k \in 1..(Cardinality(x) + 1) : \A s \in x : s.key # k
insert_at(x, d, at) == x \cup {[key |-> FreeKey(x), dom |-> d, at |-> at]}
reset_at(x, key, at) == {IF s.key = key THEN [s EXCEPT !.at = at] ELSE s : s \in x}
\* Mutant of Fired: a slot is yielded only once its instant is in the past.
Fired_strictly_past(x, t) == {s \in x : s.at < t}

\* The slots poll_expired can yield at time t.
Fired(x, t) == {s \in x : s.at <= t}

\* ------------------------------------------------------------ update_cache
\* Mutant of update_cache: a new entry is stored without a timer.
update_cache_untimed(c, x, record, expire_at) ==
    [cache |-> MapPut(c, record.domain,
                      [inner |-> record, expire_at |-> expire_at,
                       expire_key |-> FreeKey(x)]),
     expired |-> x]

\* Mutant of update_cache: an occupied entry gets a new timer and the old one
\* is left in the queue.
update_cache_always_inserts(c, x, record, expire_at) ==
    [cache |-> MapPut(c, record.domain,
                      [inner |-> record, expire_at |-> expire_at,
                       expire_key |-> FreeKey(x)]),
     expired |-> insert_at(x, record.domain, expire_at)]

update_cache(c, x, record, expire_at) ==
    IF Has(c, record.domain)
    THEN LET v == c[record.domain]
             x2 == IF v.expire_key # 0
                   THEN reset_at(x, v.expire_key, expire_at)
                   ELSE insert_at(x, record.domain, expire_at)
             key == IF v.expire_key # 0 THEN v.expire_key ELSE FreeKey(x)
         IN [cache |-> MapPut(c, record.domain,
                          [inner |-> record, expire_at |-> expire_at, expire_key |-> key]),
             expired |-> x2]
    ELSE [cache |-> MapPut(c, record.domain,
                      [inner |-> record, expire_at |-> expire_at,
                       expire_key |-> FreeKey(x)]),
          expired |-> insert_at(x, record.domain, expire_at)]

\* -------------------------------------------------------------- handle_rsp
Send(w, r, src) == [c |-> w, rec |-> r, src |-> src]

\* The failed answer is masked by the trash record: every waiter gets it.
FanoutTrash(vec, r) == [j \in 1..Len(vec) |-> Send(vec[j], r, "Trash")]

\* Mutant of FanoutQuery: the waiters are sent in the order of the vector and
\* the first of them is tagged Query.
FanoutQuery_first_is_query(vec, r) ==
    [j \in 1..Len(vec) |-> Send(vec[j], r, IF j = 1 THEN "Query" ELSE "Cache")]

\* The common path: the popped (last) waiter is sent first, tagged Query, and
\* then the others in the order of the vector, tagged Cache.
FanoutQuery(vec, r) ==
    IF vec = <<>> THEN <<>>
    ELSE <<Send(vec[Len(vec)], r, "Query")>>
           \o [j \in 1..(Len(vec) - 1) |-> Send(vec[j], r, "Cache")]

\* Mutants of rsp_fallback: the masked failure drops the trash entry.
rsp_fallback_drops_trash(c, t, d, x, record) ==
    [cache |-> c, trash |-> MapDel(t, record.domain), doing |-> MapDel(d, record.domain),
     expired |-> x,
     sent |-> IF Has(d, record.domain)
              THEN FanoutTrash(d[record.domain], t[record.domain].inner)
              ELSE <<>>,
     path |-> "fallback"]

\* Mutant of rsp_fallback: the waiters are served and the in-flight entry
\* stays, with no waiter.
rsp_fallback_keeps_doing(c, t, d, x, record) ==
    [cache |-> c, trash |-> t,
     doing |-> IF Has(d, record.domain) THEN MapPut(d, record.domain, <<>>) ELSE d,
     expired |-> x,
     sent |-> IF Has(d, record.domain)
              THEN FanoutTrash(d[record.domain], t[record.domain].inner)
              ELSE <<>>,
     path |-> "fallback"]

\* A failed answer for a domain that has a trash entry: the waiters get the
\* trash record and nothing else changes.
rsp_fallback(c, t, d, x, record) ==
    [cache |-> c, trash |-> t, doing |-> MapDel(d, record.domain), expired |-> x,
     sent |-> IF Has(d, record.domain)
              THEN FanoutTrash(d[record.domain], t[record.domain].inner)
              ELSE <<>>,
     path |-> "fallback"]

\* Mutant of rsp_common: a failed record is sent to nobody (the waiters'
\* senders are dropped).
rsp_common_drops_failed(c, t, d, x, record) ==
    LET up == IF record.expire # NoTime
              THEN update_cache(c, x, record, record.expire)
              ELSE [cache |-> c, expired |-> x]
    IN [cache |-> up.cache, trash |-> t, doing |-> MapDel(d, record.domain),
        expired |-> up.expired,
        sent |-> IF Has(d, record.domain) /\ record.ok
                 THEN FanoutQuery(d[record.domain], record)
                 ELSE <<>>,
        path |-> "common"]

\* Mutant of rsp_common: the record is put in the cache only if some waiter
\* was still listening for it.
rsp_common_needs_listener(c, t, d, x, record) ==
    LET heard == Has(d, record.domain)
                   /\ \E j \in 1..Len(d[record.domain]) : d[record.domain][j] \notin gone
        up == IF record.expire # NoTime /\ heard
              THEN update_cache(c, x, record, record.expire)
              ELSE [cache |-> c, expired |-> x]
    IN [cache |-> up.cache, trash |-> t, doing |-> MapDel(d, record.domain),
        expired |-> up.expired,
        sent |-> IF Has(d, record.domain)
                 THEN FanoutQuery(d[record.domain], record)
                 ELSE <<>>,
        path |-> "common"]

\* Mutant of rsp_common: the record is put in the cache whether or not it
\* carries expire.
rsp_common_caches_all(c, t, d, x, record) ==
    LET up == update_cache(c, x, record, record.expire)
    IN [cache |-> up.cache, trash |-> t, doing |-> MapDel(d, record.domain),
        expired |-> up.expired,
        sent |-> IF Has(d, record.domain)
                 THEN FanoutQuery(d[record.domain], record)
                 ELSE <<>>,
        path |-> "common"]

\* The common path: the waiters get the record, and a record with expire is
\* put in the cache.
rsp_common(c, t, d, x, record) ==
    LET up == IF record.expire # NoTime
              THEN update_cache(c, x, record, record.expire)
              ELSE [cache |-> c, expired |-> x]
    IN [cache |-> up.cache, trash |-> t, doing |-> MapDel(d, record.domain),
        expired |-> up.expired,
        sent |-> IF Has(d, record.domain)
                 THEN FanoutQuery(d[record.domain], record)
                 ELSE <<>>,
        path |-> "common"]

\* Mutant of handle_rsp: an acceptable record leaves the trash entry in place.
handle_rsp_keeps_trash(c, t, d, x, record) ==
    IF ~record.ok /\ Has(t, record.domain)
    THEN rsp_fallback(c, t, d, x, record)
    ELSE rsp_common(c, t, d, x, record)

\* One family's maps after handle_rsp(record), and the replies it sent.
handle_rsp(c, t, d, x, record) ==
    IF ~record.ok
    THEN IF Has(t, record.domain)
         THEN rsp_fallback(c, t, d, x, record)
         ELSE rsp_common(c, t, d, x, record)
    ELSE rsp_common(c, MapDel(t, record.domain), d, x, record)

\* ---------------------------------------------------------- handle_expired
\* Mutant: the expired record is dropped, never moved to the trash.
handle_expired_drops(c, t, domain) ==
    [cache |-> MapDel(c, domain), trash |-> t]

handle_expired(c, t, domain) ==
    IF Has(c, domain)
    THEN LET r == c[domain]
         IN [cache |-> MapDel(c, domain),
             trash |-> IF r.inner.vanish # NoTime
                       THEN MapPut(t, r.inner.domain,
                                   [inner |-> r.inner, vanish_at |-> r.inner.vanish])
                       ELSE t]
    ELSE [cache |-> c, trash |-> t]

\* -------------------------------------------------------------- handle_req
\* One family's in-flight map after handle_req(domain, sender), the reply sent
\* at once (if any), and whether the driver was asked (query), for a
\* background refresh (bg) or for a waiter.
\* Mutant of req_cache_hit: a cache hit also asks the driver.
req_cache_hit_queries(c, d, domain, sender) ==
    [doing |-> d, sent |-> <<Send(sender, c[domain].inner, "Cache")>>,
     query |-> TRUE, bg |-> TRUE, path |-> "cache"]

req_cache_hit(c, d, domain, sender) ==
    [doing |-> d, sent |-> <<Send(sender, c[domain].inner, "Cache")>>,
     query |-> FALSE, bg |-> FALSE, path |-> "cache"]

\* Mutants of req_trash_hit: every trash hit asks the driver; no trash hit does.
req_trash_hit_always(t, d, drv, domain, sender) ==
    [doing |-> IF Has(d, domain) THEN d ELSE MapPut(d, domain, <<>>),
     sent |-> <<Send(sender, t[domain].inner, "Trash")>>,
     query |-> drv # NoDriver, bg |-> TRUE, path |-> "trash"]

req_trash_hit_never(t, d, drv, domain, sender) ==
    [doing |-> IF Has(d, domain) THEN d ELSE MapPut(d, domain, <<>>),
     sent |-> <<Send(sender, t[domain].inner, "Trash")>>,
     query |-> FALSE, bg |-> TRUE, path |-> "trash"]

\* entry(domain).or_insert_with: a vacant entry gets an empty waiter list and
\* the driver, if there is one, is asked.
req_trash_hit(t, d, drv, domain, sender) ==
    [doing |-> IF Has(d, domain) THEN d ELSE MapPut(d, domain, <<>>),
     sent |-> <<Send(sender, t[domain].inner, "Trash")>>,
     query |-> ~Has(d, domain) /\ drv # NoDriver, bg |-> TRUE, path |-> "trash"]

\* Mutant of req_join: the joining request asks the driver again.
req_join_queries(d, domain, sender) ==
    [doing |-> MapPut(d, domain, Append(d[domain], sender)), sent |-> <<>>,
     query |-> TRUE, bg |-> FALSE, path |-> "join"]

\* Entry::Occupied: there is a query already.
req_join(d, domain, sender) ==
    [doing |-> MapPut(d, domain, Append(d[domain], sender)), sent |-> <<>>,
     query |-> FALSE, bg |-> FALSE, path |-> "join"]

\* Mutant of req_start: the waiter list is created empty, as for a refresh.
req_start_forgets_sender(d, drv, domain, sender) ==
    [doing |-> MapPut(d, domain, <<>>), sent |-> <<>>,
     query |-> drv # NoDriver, bg |-> FALSE,
     path |-> IF drv # NoDriver THEN "start" ELSE "unreachable"]

\* Entry::Vacant: the waiter list is created and the driver is asked; without
\* a driver the code reaches unreachable!().
req_start(d, drv, domain, sender) ==
    [doing |-> MapPut(d, domain, <<sender>>), sent |-> <<>>,
     query |-> drv # NoDriver, bg |-> FALSE,
     path |-> IF drv # NoDriver THEN "start" ELSE "unreachable"]

\* Mutant of handle_req: the in-flight entry is not looked up.
handle_req_ignores_doing(c, t, d, drv, domain, sender) ==
    IF Has(c, domain) THEN req_cache_hit(c, d, domain, sender)
    ELSE IF Has(t, domain) THEN req_trash_hit(t, d, drv, domain, sender)
    ELSE req_start(d, drv, domain, sender)

handle_req(c, t, d, drv, domain, sender) ==
    IF Has(c, domain) THEN req_cache_hit(c, d, domain, sender)
    ELSE IF Has(t, domain) THEN req_trash_hit(t, d, drv, domain, sender)
    ELSE IF Has(d, domain) THEN req_join(d, domain, sender)
    ELSE req_start(d, drv, domain, sender)

\* ------------------------------------------------------------- clean_trash
clean_trash(t, instant) ==
    [k \in {j \in DOMAIN t : t[j].vanish_at > instant} |-> t[k]]

\* --------------------------------------------------------------- handle_cmd
\* The fields of the runtime that handle_cmd(&mut self, ..) can reach.
Self ==
    [driver |-> driver, config |-> config, cache |-> cache, trash |-> trash,
     doing |-> doing, expired |-> expired]

\* Mutant of handle_cmd: a successful Update starts over with empty in-flight
\* maps, as a rebuilt runtime would.
handle_cmd_resets(self, new) ==
    IF new.ok
    THEN [self EXCEPT !.driver = new.drv, !.config = new,
                      !.doing = [f \in Families |-> EmptyMap]]
    ELSE self

\* Mutant of handle_cmd: the config is stored before the driver is built, and
\* a driver that cannot be built leaves the runtime without one.
handle_cmd_applies_rejected(self, new) ==
    IF new.ok THEN [self EXCEPT !.driver = new.drv, !.config = new]
    ELSE [self EXCEPT !.driver = NoDriver, !.config = new]

\* Mutant of handle_cmd: the config is stored at once and the driver built
\* from it is not put in place by the command.
handle_cmd_keeps_driver(self, new) ==
    IF new.ok THEN [self EXCEPT !.config = new] ELSE self

\* Update(config): the runtime after the command. The driver is built from
\* the new config; if it is, it replaces self.driver and the config replaces
\* self.config, otherwise nothing is assigned.
handle_cmd(self, new) ==
    IF new.ok THEN [self EXCEPT !.driver = new.drv, !.config = new]
    ELSE self

\* Mutant of AfterCmd: after Quit the iteration goes on, as after an Update.
AfterCmd_goes_on(cmd) == "rsp"

\* Where the loop goes after a command taken at the top of an iteration: Quit
\* leaves the loop (break), an Update is handled and the iteration goes on.
AfterCmd(cmd) == IF cmd.kind = "Quit" THEN "done" ELSE "rsp"

\* Mutant of RspFamily: every response is handled on the IPv4 maps.
RspFamily_always_v4(rsp) == 4

\* handle_rsp matches the response: V4(record) is handled on cache_v4,
\* trash_v4, doing_v4 and expired_v4, V6(record) on those of IPv6.
RspFamily(rsp) == rsp.fam

\* update_mem_stats: the length gauges of memory_a and memory_aaaa are set from
\* the lengths of the cache, doing and trash maps of their family.
update_mem_stats(c, d, t) ==
    [f \in Families |-> [cache |-> Cardinality(DOMAIN c[f]),
                         doing |-> Cardinality(DOMAIN d[f]),
                         trash |-> Cardinality(DOMAIN t[f])]]

\* ------------------------------------------------------------------- state
\* The gauges of a ResolverStats nobody has set.
NoStats == [f \in Families |-> [cache |-> 0, doing |-> 0, trash |-> 0]]
NoRec == Record(0, "", FALSE, NoTime, NoTime)
NoConfig == [drv |-> 0, ok |-> FALSE, batch |-> 0]
NoEnc == [st |-> "none"]
NoIter == [cmd |-> NoConfig, swept |-> FALSE, update_mem_stats |-> FALSE, gauged |-> 0]
NoEv ==
    [op |-> "none", fam |-> 0, dom |-> "", c |-> 0, path |-> "", rec |-> NoRec,
     sent |-> <<>>,
     query |-> FALSE, at |-> 0, cache0 |-> EmptyMap, trash0 |-> EmptyMap,
     doing0 |-> EmptyMap, driver0 |-> NoDriver, from |-> NoDriver, cmd |-> NoConfig,
     iter |-> NoIter]

Alive == pc \in {"idle", "ctl", "rsp", "exp4", "exp6", "req"}

\* An event at a source wakes the task if the source holds its waker.
Wake(src) ==
    IF src \in wk THEN woken' = TRUE /\ wk' = wk \ {src}
    ELSE UNCHANGED <<woken, wk>>

\* The oneshot receivers after the replies of `sent`: a send to a receiver
\* that has been dropped fails, and the failure is ignored (`let _ =`).
Deliver(rep, sent) ==
    [c \in Callers |-> rep[c] \o SelectSeq(sent, LAMBDA s : s.c = c /\ c \notin gone)]

\* The for loop `for _ in 1..batch_request_count` runs batch_request_count - 1
\* times; after its last round the outer loop starts its next iteration.
BatchRounds(batch) == batch - 1
AfterReq(n, batch) == IF n >= BatchRounds(batch) THEN "ctl" ELSE "req"

\* Mutant of CtlEmpty: a closed control channel is taken as one with no command.
CtlEmpty_ignores_close(open) == "rsp"

\* The control channel has no command: while a sender is alive poll_recv is
\* Pending and the iteration goes on with no command; when all are dropped it
\* is Ready(None) and the loop is left.
CtlEmpty(open) == IF open THEN "rsp" ELSE "done"

\* Mutant of ReqEmpty: the closed request channel ends the future with Err.
ReqEmpty_is_error(open) == IF open THEN "idle" ELSE "err"

\* The request channel has no request: while a sender is alive poll_recv is
\* Pending and poll_loop returns Pending; when all are dropped it is
\* Ready(None), the outer loop is left and the future is Ready(Ok(())).
ReqEmpty(open) == IF open THEN "idle" ELSE "done"

InitRuntime ==
    /\ now = 0
    /\ pc = "idle"
    /\ cnt = 0
    /\ woken = TRUE
    /\ wk = {}
    /\ config \in InitConfigs
    /\ driver = NoDriver
    /\ ctlQ = <<>>
    /\ ctlOpen = TRUE
    /\ reqQ = <<>>
    /\ reqOpen = TRUE
    /\ rspQ = <<>>
    /\ querying = {}
    /\ cache = [f \in Families |-> EmptyMap]
    /\ trash = [f \in Families |-> EmptyMap]
    /\ doing = [f \in Families |-> EmptyMap]
    /\ expired = [f \in Families |-> {}]
    /\ replies = [c \in Callers |-> <<>>]
    /\ nreq = 0
    /\ ncmd = 0
    /\ nq = 0
    /\ latest = [f \in Families |-> EmptyMap]
    /\ refreshed = {}
    /\ ev = NoEv
    /\ gone = {}
    /\ abandoned = {}
    /\ iter = NoIter
    /\ mem = NoStats

\* The resolver runtime alone: no chunked encoder runs.
Init == InitRuntime /\ enc = NoEnc

\* ------------------------------------------------------------- environment
\* A message sent while the actor runs is first seen when the actor next polls
\* its channel, and wakes the task only if the channel holds the waker; sending
\* it earlier in the same poll changes nothing the actor can observe. The
\* environment therefore acts while the task is suspended or at the top of an
\* iteration of the loop.
\* A caller sends GetV4/GetV6(domain, sender) on the request channel, for a
\* family in F, while fewer than max requests have been sent.
SubmitReq(F, max) ==
    /\ pc \in {"idle", "ctl"} /\ reqOpen /\ nreq < max
    /\ UNCHANGED <<gone, abandoned, enc, iter, mem>>
    /\ \E f \in F, d \in Domains :
         reqQ' = Append(reqQ, [fam |-> f, domain |-> d, sender |-> nreq + 1])
    /\ nreq' = nreq + 1
    /\ Wake("req")
    /\ ev' = NoEv
    /\ UNCHANGED <<now, pc, cnt, config, driver, ctlQ, ctlOpen, reqOpen, rspQ, querying,
                   cache, trash, doing, expired, replies, ncmd, nq, latest, refreshed>>

\* The last request sender is dropped.
CloseReq ==
    /\ pc \in {"idle", "ctl"} /\ reqOpen
    /\ UNCHANGED <<gone, abandoned, enc, iter, mem>>
    /\ reqOpen' = FALSE
    /\ Wake("req")
    /\ ev' = NoEv
    /\ UNCHANGED <<now, pc, cnt, config, driver, ctlQ, ctlOpen, reqQ, rspQ, querying,
                   cache, trash, doing, expired, replies, nreq, ncmd, nq, latest, refreshed>>

\* Update(config) or Quit is sent on the control channel: a command of K,
\* while fewer than max commands have been sent.
Updates == {[kind |-> "Update", config |-> c] : c \in Configs}
Quit == [kind |-> "Quit", config |-> NoConfig]
Commands == Updates \cup {Quit}
SendCmd(K, max) ==
    /\ pc \in {"idle", "ctl"} /\ ctlOpen /\ ncmd < max
    /\ UNCHANGED <<gone, abandoned, enc, iter, mem>>
    /\ \E cmd \in K : ctlQ' = Append(ctlQ, cmd)
    /\ ncmd' = ncmd + 1
    /\ Wake("ctl")
    /\ ev' = NoEv
    /\ UNCHANGED <<now, pc, cnt, config, driver, ctlOpen, reqQ, reqOpen, rspQ, querying,
                   cache, trash, doing, expired, replies, nreq, nq, latest, refreshed>>

\* The last control sender is dropped.
CloseCtl ==
    /\ pc \in {"idle", "ctl"} /\ ctlOpen
    /\ UNCHANGED <<gone, abandoned, enc, iter, mem>>
    /\ ctlOpen' = FALSE
    /\ Wake("ctl")
    /\ ev' = NoEv
    /\ UNCHANGED <<now, pc, cnt, config, driver, ctlQ, reqQ, reqOpen, rspQ, querying,
                   cache, trash, doing, expired, replies, nreq, ncmd, nq, latest, refreshed>>

\* A caller that has sent its request and has no reply yet gives up: it drops
\* its oneshot receiver. The runtime is not told.
DropReceiver ==
    /\ pc \in {"idle", "ctl"}
    /\ \E c \in (1..nreq) \ gone :
         /\ replies[c] = <<>>
         /\ gone' = gone \cup {c}
    /\ ev' = NoEv
    /\ UNCHANGED <<now, pc, cnt, woken, wk, config, driver, ctlQ, ctlOpen, reqQ, reqOpen,
                   rspQ, querying, cache, trash, doing, expired, replies, nreq, ncmd, nq,
                   latest, refreshed, abandoned, enc, iter, mem>>

\* The driver answers one query, once, with a record for the queried domain;
\* a record that is not acceptable (a transient failure) carries no expire.
DriverRespond ==
    /\ pc \in {"idle", "ctl"}
    /\ UNCHANGED <<gone, abandoned, enc, iter, mem>>
    /\ \E q \in querying, ok \in BOOLEAN :
       \E tm \in IF ok THEN RecordTimes(now) ELSE {<<NoTime, NoTime>>} :
         /\ rspQ' = Append(rspQ, [fam |-> q.fam, drv |-> q.drv,
                                  record |-> Record(q.id, q.domain, ok, tm[1], tm[2])])
         /\ querying' = querying \ {q}
    /\ Wake("rsp")
    /\ ev' = NoEv
    /\ UNCHANGED <<now, pc, cnt, config, driver, ctlQ, ctlOpen, reqQ, reqOpen,
                   cache, trash, doing, expired, replies, nreq, ncmd, nq, latest, refreshed>>

\* Time passes while the task is suspended or between two iterations of the
\* loop; a DelayQueue that holds the waker wakes the task when a slot is due.
TimerSrc(f) == IF f = 4 THEN "tm4" ELSE "tm6"
Tick ==
    /\ pc \in {"idle", "ctl"} /\ now < MaxTime
    /\ UNCHANGED <<gone, abandoned, enc, iter, mem>>
    /\ now' = now + 1
    /\ LET due == {TimerSrc(f) : f \in {g \in Families : Fired(expired[g], now + 1) # {}}}
       IN /\ wk' = wk \ due
          /\ woken' = (woken \/ (wk \cap due # {}))
    /\ ev' = NoEv
    /\ UNCHANGED <<pc, cnt, config, driver, ctlQ, ctlOpen, reqQ, reqOpen, rspQ, querying,
                   cache, trash, doing, expired, replies, nreq, ncmd, nq, latest, refreshed>>

\* --------------------------------------------------------------- poll_loop
Ev(op, f, d, c, path, rec, sent, query) ==
    [op |-> op, fam |-> f, dom |-> d, c |-> c, path |-> path, rec |-> rec, sent |-> sent,
     query |-> query, at |-> now,
     cache0 |-> IF f \in Families THEN cache[f] ELSE EmptyMap,
     trash0 |-> IF f \in Families THEN trash[f] ELSE EmptyMap,
     doing0 |-> IF f \in Families THEN doing[f] ELSE EmptyMap,
     driver0 |-> driver, from |-> NoDriver, cmd |-> NoConfig, iter |-> iter]

\* The task is polled: the driver is built if there is none yet (a failure
\* ends the future with Err), the trash is swept, and the loop is entered.
PollStart ==
    /\ pc = "idle" /\ woken
    /\ UNCHANGED <<gone, abandoned, enc, mem>>
    /\ woken' = FALSE
    /\ IF driver = NoDriver /\ ~config.ok
       THEN /\ pc' = "err"
            /\ UNCHANGED <<driver, trash, iter>>
       ELSE /\ pc' = "ctl"
            /\ driver' = IF driver = NoDriver THEN config.drv ELSE driver
            /\ trash' = [f \in Families |-> clean_trash(trash[f], now)]
            /\ iter' = [NoIter EXCEPT !.swept = TRUE]
    /\ ev' = Ev("poll", 0, "", 0, "", NoRec, <<>>, FALSE)
    /\ UNCHANGED <<now, cnt, wk, config, ctlQ, ctlOpen, reqQ, reqOpen, rspQ, querying,
                   cache, doing, expired, replies, nreq, ncmd, nq, latest, refreshed>>

\* Top of an iteration: at most one command is taken from the control channel.
StepCtl ==
    /\ pc = "ctl"
    /\ UNCHANGED <<gone, abandoned, enc, mem>>
    /\ IF ctlQ # <<>>
       THEN /\ ctlQ' = Tail(ctlQ)
            /\ pc' = AfterCmd(Head(ctlQ))
            /\ IF Head(ctlQ).kind = "Quit"
               THEN /\ iter' = NoIter
                    /\ UNCHANGED <<driver, config, cache, trash, doing, expired>>
               ELSE LET r == handle_cmd(Self, Head(ctlQ).config)
                    IN /\ iter' = [iter EXCEPT !.cmd = Head(ctlQ).config]
                       /\ driver' = r.driver
                       /\ config' = r.config
                       /\ cache' = r.cache
                       /\ trash' = r.trash
                       /\ doing' = r.doing
                       /\ expired' = r.expired
            /\ wk' = wk
            /\ ev' = [Ev("ctl", 0, "", 0, Head(ctlQ).kind, NoRec, <<>>, FALSE)
                        EXCEPT !.cmd = Head(ctlQ).config]
       ELSE /\ pc' = CtlEmpty(ctlOpen)
            /\ wk' = IF ctlOpen THEN wk \cup {"ctl"} ELSE wk
            /\ iter' = IF ctlOpen THEN iter ELSE NoIter
            /\ ev' = NoEv
            /\ UNCHANGED <<ctlQ, driver, config, cache, trash, doing, expired>>
    /\ UNCHANGED <<now, cnt, woken, ctlOpen, reqQ, reqOpen, rspQ, querying,
                   replies, nreq, ncmd, nq, latest, refreshed>>

\* The response loop: one ready response is handled, or the channel is pending.
StepRsp ==
    /\ pc = "rsp"
    /\ UNCHANGED <<gone, enc, mem>>
    /\ IF rspQ # <<>>
       THEN LET f == RspFamily(Head(rspQ))
                record == Head(rspQ).record
                r == handle_rsp(cache[f], trash[f], doing[f], expired[f], record)
            IN /\ rspQ' = Tail(rspQ)
               /\ cache' = [cache EXCEPT ![f] = r.cache]
               /\ trash' = [trash EXCEPT ![f] = r.trash]
               /\ doing' = [doing EXCEPT ![f] = r.doing]
               /\ expired' = [expired EXCEPT ![f] = r.expired]
               /\ replies' = Deliver(replies, r.sent)
               /\ latest' = IF r.path = "common"
                            THEN [latest EXCEPT ![f] = MapPut(@, record.domain, record)]
                            ELSE latest
               /\ abandoned' = IF \E j \in 1..Len(r.sent) : r.sent[j].c \in gone
                               THEN abandoned \cup {record.id}
                               ELSE abandoned
               /\ iter' = [iter EXCEPT !.update_mem_stats = TRUE]
               /\ ev' = [Ev("rsp", f, record.domain, 0, r.path, record, r.sent, FALSE)
                           EXCEPT !.from = Head(rspQ).drv]
               /\ UNCHANGED <<pc, wk>>
       ELSE /\ pc' = "exp4"
            /\ wk' = wk \cup {"rsp"}
            /\ ev' = NoEv
            /\ UNCHANGED <<rspQ, cache, trash, doing, expired, replies, latest, abandoned,
                           iter>>
    /\ UNCHANGED <<now, cnt, woken, config, driver, ctlQ, ctlOpen, reqQ, reqOpen, querying,
                   nreq, ncmd, nq, refreshed>>

\* The expiry loop of one family: one fired slot is taken and handled, or the
\* queue has nothing ready (an empty queue registers no waker). After the loop
\* of the second family the gauges are refreshed if update_mem_stats is set.
StepExp(f, next) ==
    /\ UNCHANGED <<gone, abandoned, enc>>
    /\ IF Fired(expired[f], now) # {}
       THEN \E s \in Fired(expired[f], now) :
              LET r == handle_expired(cache[f], trash[f], s.dom)
              IN /\ expired' = [expired EXCEPT ![f] = @ \ {s}]
                 /\ cache' = [cache EXCEPT ![f] = r.cache]
                 /\ trash' = [trash EXCEPT ![f] = r.trash]
                 /\ iter' = [iter EXCEPT !.update_mem_stats = TRUE]
                 /\ ev' = Ev("exp", f, s.dom, 0, "", NoRec, <<>>, FALSE)
                 /\ UNCHANGED <<pc, cnt, wk, mem>>
       ELSE /\ pc' = next
            /\ cnt' = 0
            /\ wk' = IF expired[f] # {} THEN wk \cup {TimerSrc(f)} ELSE wk
            /\ LET last == f = 6
                   call == last /\ iter.update_mem_stats
                   it == IF call THEN [iter EXCEPT !.gauged = @ + 1] ELSE iter
               IN /\ mem' = IF call THEN update_mem_stats(cache, doing, trash) ELSE mem
                  /\ iter' = IF next = "ctl" THEN NoIter ELSE it
            /\ ev' = NoEv
            /\ UNCHANGED <<expired, cache, trash>>
    /\ UNCHANGED <<now, woken, config, driver, ctlQ, ctlOpen, reqQ, reqOpen, rspQ,
                   querying, doing, replies, nreq, ncmd, nq, latest, refreshed>>

StepExp4 == pc = "exp4" /\ StepExp(4, "exp6")
StepExp6 == pc = "exp6" /\ StepExp(6, AfterReq(0, config.batch))

\* One round of the request loop: a request is handled, or the channel is
\* pending (the poll returns Pending) or closed (the loop is left).
StepReq ==
    /\ pc = "req"
    /\ UNCHANGED <<gone, abandoned, enc, mem>>
    /\ IF reqQ # <<>>
       THEN LET f == Head(reqQ).fam
                d == Head(reqQ).domain
                r == handle_req(cache[f], trash[f], doing[f], driver, d, Head(reqQ).sender)
            IN /\ reqQ' = Tail(reqQ)
               /\ doing' = [doing EXCEPT ![f] = r.doing]
               /\ replies' = Deliver(replies, r.sent)
               /\ nq' = IF r.query THEN nq + 1 ELSE nq
               /\ querying' = IF r.query
                              THEN querying \cup {[id |-> nq + 1, fam |-> f, domain |-> d,
                                                   drv |-> driver]}
                              ELSE querying
               /\ refreshed' = IF r.query /\ r.bg THEN refreshed \cup {nq + 1}
                               ELSE refreshed
               /\ cnt' = cnt + 1
               /\ pc' = IF r.path = "unreachable" THEN "panic"
                        ELSE AfterReq(cnt + 1, config.batch)
               /\ iter' = IF r.path # "unreachable" /\ AfterReq(cnt + 1, config.batch) = "ctl"
                          THEN NoIter ELSE iter
               /\ ev' = Ev("req", f, d, Head(reqQ).sender, r.path, NoRec, r.sent, r.query)
               /\ wk' = wk
       ELSE /\ pc' = ReqEmpty(reqOpen)
            /\ wk' = IF reqOpen THEN wk \cup {"req"} ELSE wk
            /\ iter' = NoIter
            /\ ev' = NoEv
            /\ UNCHANGED <<reqQ, doing, replies, nq, querying, cnt, refreshed>>
    /\ UNCHANGED <<now, woken, config, driver, ctlQ, ctlOpen, reqOpen, rspQ,
                   cache, trash, expired, nreq, ncmd, latest>>

\* The actor: one step of poll_loop.
Actor ==
    \/ PollStart
    \/ StepCtl
    \/ StepRsp
    \/ StepExp4
    \/ StepExp6
    \/ StepReq

\* Callers resolve IPv4 names of one domain; no control command is sent.
Next ==
    \/ SubmitReq({4}, MaxReqs)
    \/ DriverRespond
    \/ Tick
    \/ Actor

Spec == Init /\ [][Next]_vars

\* The same callers, and Update commands on the control channel.
NextCtl ==
    \/ SendCmd(Updates, MaxCmds)
    \/ Next

SpecCtl == Init /\ [][NextCtl]_vars

\* Callers of both families, fewer of them, and Update commands.
NextWide ==
    \/ SubmitReq(Families, MaxReqsWide)
    \/ SendCmd(Updates, MaxCmds)
    \/ DriverRespond
    \/ Tick
    \/ Actor

SpecWide == Init /\ [][NextWide]_vars

\* The same callers, some of which give up waiting.
NextDrop ==
    \/ DropReceiver
    \/ Next

SpecDrop == Init /\ [][NextDrop]_vars

\* The life cycle: fewer callers, Update and Quit commands, and the senders of
\* both channels dropped. A task that has been woken is polled, and a poll
\* runs on to its return.
NextLife ==
    \/ SubmitReq({4}, MaxReqsLife)
    \/ SendCmd(Commands, MaxCmdsLife)
    \/ CloseReq
    \/ CloseCtl
    \/ DriverRespond
    \/ Tick
    \/ Actor

SpecLife == Init /\ [][NextLife]_vars /\ WF_vars(Actor)

\* The callers of Spec with a driver that answers every query it was given:
\* a response that is due is sent, a task that has been woken is polled, and
\* a poll runs on to its return.
SpecFair == Init /\ [][Next]_vars /\ WF_vars(Actor) /\ WF_vars(DriverRespond)

\* The callers of Spec, and an Update whose config has batch_request_count = 1;
\* a task that has been woken is polled, and a poll runs on to its return.
BatchOne == [drv |-> 1, ok |-> TRUE, batch |-> 1]
UpdatesOne == {[kind |-> "Update", config |-> BatchOne]}
NextOne ==
    \/ SendCmd(UpdatesOne, MaxCmds)
    \/ Next

SpecOne == Init /\ [][NextOne]_vars /\ WF_vars(Actor)

\* ------------------------------------------------- cache and expiry queue
\* update_cache and handle_expired on their own: records with expire and no
\* vanish, for two domains, are put in the IPv4 cache in any order, whether
\* or not the domain has an entry, and the slots that have fired are taken
\* from the queue.
CacheDomains == {"a", "b"}

cache_rest ==
    <<pc, cnt, woken, wk, config, driver, ctlQ, ctlOpen, reqQ, reqOpen, rspQ,
      querying, doing, replies, nreq, ncmd, latest, refreshed, gone, abandoned,
      enc, iter, mem>>

\* Self::update_cache(&mut cache, &mut expired, record, expire_at) with the
\* record's expire, as handle_rsp calls it.
CacheUpsert ==
    /\ nq < MaxUpserts
    /\ \E f \in {4}, d \in CacheDomains :
       \E tm \in {t \in RecordTimes(now) : t[1] # NoTime /\ t[2] = NoTime} :
          LET record == Record(nq + 1, d, TRUE, tm[1], tm[2])
              r == update_cache(cache[f], expired[f], record, record.expire)
          IN /\ cache' = [cache EXCEPT ![f] = r.cache]
             /\ expired' = [expired EXCEPT ![f] = r.expired]
             /\ ev' = Ev("upsert", f, d, 0, "", record, <<>>, FALSE)
    /\ nq' = nq + 1
    /\ UNCHANGED <<now, trash>>
    /\ UNCHANGED cache_rest

\* poll_expired yields a fired slot and handle_expired takes its domain.
CacheExpire ==
    /\ \E f \in Families : \E s \in Fired(expired[f], now) :
          LET r == handle_expired(cache[f], trash[f], s.dom)
          IN /\ expired' = [expired EXCEPT ![f] = @ \ {s}]
             /\ cache' = [cache EXCEPT ![f] = r.cache]
             /\ trash' = [trash EXCEPT ![f] = r.trash]
             /\ ev' = Ev("exp", f, s.dom, 0, "", NoRec, <<>>, FALSE)
    /\ UNCHANGED <<now, nq>>
    /\ UNCHANGED cache_rest

CacheTick ==
    /\ now < MaxTime
    /\ now' = now + 1
    /\ ev' = NoEv
    /\ UNCHANGED <<cache, trash, expired, nq>>
    /\ UNCHANGED cache_rest

NextCache ==
    \/ CacheUpsert
    \/ CacheExpire
    \/ CacheTick

SpecCache == Init /\ [][NextCache]_vars

\* ===================================================== chunked encoder
\* lib/g3-http/src/body/stream_to_chunked.rs. Bytes are numbers: the bytes of
\* the framing are ASCII codes, byte j of the reader's buffer i is 1000 * i + j.
CR == 13
LF == 10
ChunkLens == {1, 10, 18}
YieldSizes == {4, 1024}
Buffer(i, len) == [j \in 1..len |-> 1000 * i + j]
Bodies ==
    UNION {[1..n -> ChunkLens] : n \in 0..MaxBufs}

runtime_vars ==
    <<now, pc, cnt, woken, wk, config, driver, ctlQ, ctlOpen, reqQ, reqOpen,
      rspQ, querying, cache, trash, doing, expired, replies, nreq, ncmd, nq,
      latest, refreshed, ev, gone, abandoned, iter, mem>>

\* write!(.., "{chunk_size:x}"): lower-case hexadecimal, no leading zero.
HexDigit(k) == IF k < 10 THEN 48 + k ELSE 87 + k
RECURSIVE Hex(_)
Hex(n) == IF n < 16 THEN <<HexDigit(n)>> ELSE Hex(n \div 16) \o <<HexDigit(n % 16)>>

\* Mutant of static_header: every chunk header, the first too, starts with the
\* CRLF that ends the chunk before it.
static_header_always_crlf(chunk_size, total_write, no_trailer) ==
    IF chunk_size = 0
    THEN IF total_write = 0
         THEN IF no_trailer THEN <<48, CR, LF, CR, LF>> ELSE <<48, CR, LF>>
         ELSE IF no_trailer THEN <<CR, LF, 48, CR, LF, CR, LF>> ELSE <<CR, LF, 48, CR, LF>>
    ELSE <<CR, LF>> \o Hex(chunk_size) \o <<CR, LF>>

\* self.static_header after a read of chunk_size bytes (0 at end of stream).
static_header(chunk_size, total_write, no_trailer) ==
    IF chunk_size = 0
    THEN IF total_write = 0
         THEN IF no_trailer THEN <<48, CR, LF, CR, LF>> ELSE <<48, CR, LF>>
         ELSE IF no_trailer THEN <<CR, LF, 48, CR, LF, CR, LF>> ELSE <<CR, LF, 48, CR, LF>>
    ELSE IF total_write = 0
         THEN Hex(chunk_size) \o <<CR, LF>>
         ELSE <<CR, LF>> \o Hex(chunk_size) \o <<CR, LF>>

\* ChunkedEncodeTransferInternal::new, with a reader that will yield the
\* buffers of `body` and then end of stream, and an empty writer.
NewEncoder(yield_size, no_trailer, body) ==
    [st |-> "run", yield_size |-> yield_size, no_trailer |-> no_trailer,
     this_chunk_size |-> 0, left_chunk_size |-> 0,
     static_header |-> <<>>, static_offset |-> 0, total_write |-> 0,
     read_finished |-> FALSE, active |-> FALSE, copy_this_round |-> 0,
     bufs |-> [i \in 1..Len(body) |-> Buffer(i, body[i])],
     input |-> [i \in 1..Len(body) |-> Buffer(i, body[i])],
     out |-> <<>>, ret |-> 0]

finished(e) == e.read_finished /\ e.static_offset >= Len(e.static_header)
no_cached_data(e) ==
    e.static_offset >= Len(e.static_header) /\ e.left_chunk_size = 0

InitChunk ==
    /\ InitRuntime
    /\ \E y \in YieldSizes, nt \in BOOLEAN, body \in Bodies :
         enc = NewEncoder(y, nt, body)

\* Where poll_encode stands is told by the fields of self: a poll that
\* returned Pending is resumed at the same operation.
AtFill == enc.st = "run" /\ enc.this_chunk_size = 0 /\ ~enc.read_finished
AtHeader ==
    enc.st = "run" /\ ~AtFill /\ enc.static_offset < Len(enc.static_header)
AtFlush ==
    enc.st = "run" /\ ~AtFill /\ ~AtHeader /\ enc.read_finished
AtData ==
    enc.st = "run" /\ ~AtFill /\ ~AtHeader /\ ~AtFlush /\ enc.left_chunk_size > 0

\* poll_fill_buf is Ready(Ok(data)): the header of the chunk, or the
\* terminator at end of stream, is prepared.
EncFill ==
    /\ AtFill
    /\ LET chunk_size == IF enc.bufs = <<>> THEN 0 ELSE Len(Head(enc.bufs))
       IN enc' = [enc EXCEPT
                    !.active = TRUE,
                    !.read_finished = (chunk_size = 0),
                    !.static_header =
                        static_header(chunk_size, enc.total_write, enc.no_trailer),
                    !.static_offset = 0,
                    !.this_chunk_size = chunk_size,
                    !.left_chunk_size = chunk_size]
    /\ UNCHANGED runtime_vars

\* poll_write of the rest of the header is Ready(Ok(nw)), 1 <= nw <= rest.
EncWriteHeader ==
    /\ AtHeader
    /\ \E nw \in 1..(Len(enc.static_header) - enc.static_offset) :
         enc' = [enc EXCEPT
                   !.out = @ \o SubSeq(enc.static_header, enc.static_offset + 1,
                                       enc.static_offset + nw),
                   !.active = TRUE,
                   !.static_offset = @ + nw,
                   !.total_write = @ + nw]
    /\ UNCHANGED runtime_vars

\* poll_flush is Ready(Ok): poll_encode returns Ready(Ok(total_write)).
EncFlush ==
    /\ AtFlush
    /\ enc' = [enc EXCEPT !.st = "ok", !.ret = enc.total_write]
    /\ UNCHANGED runtime_vars

\* poll_write of data[..left_chunk_size] is Ready(Ok(nw)) and nw bytes are
\* consumed from the reader; after the last byte of the chunk the encoder
\* yields (returns Pending, woken) if it copied yield_size bytes this poll.
EncWriteData ==
    /\ AtData
    /\ \E nw \in 1..enc.left_chunk_size :
         LET data == Head(enc.bufs)
             left == enc.left_chunk_size - nw
             copy == enc.copy_this_round + nw
         IN enc' = [enc EXCEPT
                      !.out = @ \o SubSeq(data, 1, nw),
                      !.bufs = IF nw = Len(data) THEN Tail(enc.bufs)
                               ELSE <<SubSeq(data, nw + 1, Len(data))>> \o Tail(enc.bufs),
                      !.active = TRUE,
                      !.left_chunk_size = left,
                      !.total_write = @ + nw,
                      !.this_chunk_size = IF left = 0 THEN 0 ELSE @,
                      !.copy_this_round =
                          IF left = 0 /\ copy >= enc.yield_size THEN 0 ELSE copy]
    /\ UNCHANGED runtime_vars

\* The reader or the writer is Pending: poll_encode returns Pending and is
\* polled again later, with a new copy_this_round.
EncPending ==
    /\ enc.st = "run" /\ enc.copy_this_round > 0
    /\ enc' = [enc EXCEPT !.copy_this_round = 0]
    /\ UNCHANGED runtime_vars

\* poll_fill_buf fails: Err(StreamCopyError::ReadFailed).
EncReadFailed ==
    /\ AtFill \/ AtData
    /\ enc' = [enc EXCEPT !.st = "ReadFailed"]
    /\ UNCHANGED runtime_vars

\* poll_write or poll_flush fails: Err(StreamCopyError::WriteFailed).
EncWriteFailed ==
    /\ AtHeader \/ AtData \/ AtFlush
    /\ enc' = [enc EXCEPT !.st = "WriteFailed"]
    /\ UNCHANGED runtime_vars

\* reset_active(), between two polls.
EncResetActive ==
    /\ enc.st = "run" /\ enc.active /\ enc.copy_this_round = 0
    /\ enc' = [enc EXCEPT !.active = FALSE]
    /\ UNCHANGED runtime_vars

NextChunk ==
    \/ EncFill
    \/ EncWriteHeader
    \/ EncFlush
    \/ EncWriteData
    \/ EncPending
    \/ EncReadFailed
    \/ EncWriteFailed
    \/ EncResetActive

SpecChunk == InitChunk /\ [][NextChunk]_vars

\* ================================================================== claims
Keys == Families \X Domains

\* The driver queries of a key that are dispatched and whose answer the actor
\* has not handled: not yet answered, or answered and still on the channel.
Unanswered(f, d) == {q \in querying : q.fam = f /\ q.domain = d}
Unhandled(f, d) == SelectSeq(rspQ, LAMBDA m : m.fam = f /\ m.record.domain = d)
InFlight(f, d) == Cardinality(Unanswered(f, d)) + Len(Unhandled(f, d))

\* About the handler step just taken: the waiters that were queued for its
\* key before it, what it sent to caller c, and the key's latest record.
Waiters0 == IF Has(ev.doing0, ev.dom) THEN ev.doing0[ev.dom] ELSE <<>>
SentTo(c) == SelectSeq(ev.sent, LAMBDA s : s.c = c)
Range(q) == {q[j] : j \in 1..Len(q)}
HasLatest == ev.fam \in Families /\ Has(latest[ev.fam], ev.dom)
Latest == latest[ev.fam][ev.dom]
Miss == ev.op = "req" /\ ~Has(ev.cache0, ev.dom) /\ ~Has(ev.trash0, ev.dom)

\* C1 (Dedup): the requests handled for a key with no cache and no trash
\* entry, before the response is handled, are served by exactly one driver
\* query: the first of them dispatches it and the others dispatch none; while
\* waiters are queued exactly one query of the key is in flight; and the
\* response sends every queued waiter one reply, carrying the response's record.
C1_Dedup ==
    /\ Miss => (ev.query <=> ~Has(ev.doing0, ev.dom))
    /\ \A k \in Keys : Has(doing[k[1]], k[2]) => InFlight(k[1], k[2]) = 1
    /\ ev.op = "rsp" =>
         \A j \in 1..Len(Waiters0) :
            /\ Len(SentTo(Waiters0[j])) = 1
            /\ SentTo(Waiters0[j])[1].rec = ev.rec
            /\ replies[Waiters0[j]] = SentTo(Waiters0[j])

\* Three callers were queued behind one query and its response was handled.
C1_Witness ==
    ev.op = "rsp" /\ Len(Waiters0) = 3 /\ nq = 1 /\ Len(ev.sent) = 3

\* C2: at most one driver query per (family, domain) is dispatched and not
\* yet answered, in every reachable state; nor is a second one dispatched
\* while the answer of the first waits on the response channel.
C2_OneOutstanding ==
    \A k \in Keys :
       /\ Cardinality(Unanswered(k[1], k[2])) <= 1
       /\ InFlight(k[1], k[2]) <= 1

\* An Update swapped the driver while a query of the old driver is outstanding,
\* and a further request for the key has been handled since.
C2_Witness ==
    /\ ev.op = "req" /\ ev.path = "join"
    /\ \E q \in Unanswered(ev.fam, ev.dom) : q.drv # driver

\* C3 (Cache hit precedence): a request handled for a key whose cache entry
\* expires in the future is answered at once with that entry's record tagged
\* Cache, asks the driver nothing and leaves the in-flight map as it was.
C3_CacheHit ==
    (ev.op = "req" /\ Has(ev.cache0, ev.dom) /\ ev.cache0[ev.dom].expire_at > ev.at) =>
       /\ ev.sent = <<Send(ev.c, ev.cache0[ev.dom].inner, "Cache")>>
       /\ replies[ev.c] = ev.sent
       /\ ~ev.query
       /\ doing[ev.fam] = ev.doing0
       /\ InFlight(ev.fam, ev.dom) = 0

C3_Witness ==
    ev.op = "req" /\ Has(ev.cache0, ev.dom) /\ ev.cache0[ev.dom].expire_at > ev.at

C5_GracePurge ==
    (ev.op = "req" /\ ev.path = "trash") => ev.sent[1].rec.vanish > ev.at

\* C6, as claimed: once the vanish instant of the key's latest record has
\* passed, a request for the key asks the driver.
VanishPassed ==
    /\ ev.op = "req" /\ HasLatest
    /\ Latest.vanish # NoTime /\ Latest.vanish <= ev.at
C6_FreshQueryAlways == VanishPassed => ev.query

\* C6, amended: such a request asks the driver exactly when no query of the
\* key is in flight; while the background refresh is outstanding it asks
\* nothing, and once the trash entry is swept the caller waits for the refresh.
C6_FreshQueryUnlessInFlight ==
    VanishPassed =>
       /\ ev.query <=> ~Has(ev.doing0, ev.dom)
       /\ InFlight(ev.fam, ev.dom) = 1
       /\ (Has(ev.doing0, ev.dom) /\ ~Has(ev.trash0, ev.dom)) =>
             (~ev.query /\ doing[ev.fam][ev.dom] = Append(ev.doing0[ev.dom], ev.c))

\* The refresh started by a trash hit is still outstanding, the trash entry
\* has been swept, and a request joins the refresh.
C6_Witness ==
    /\ VanishPassed /\ ev.path = "join"
    /\ \E q \in Unanswered(ev.fam, ev.dom) : q.id \in refreshed

\* C7 (Stale-while-revalidate): at most one background refresh of a key is in
\* flight, and a trash hit that finds an in-flight entry asks the driver
\* nothing and leaves the in-flight map as it was.
Refreshes(f, d) ==
    Cardinality({q \in Unanswered(f, d) : q.id \in refreshed})
      + Len(SelectSeq(Unhandled(f, d), LAMBDA m : m.record.id \in refreshed))
C7_OneRefresh ==
    /\ \A k \in Keys : Refreshes(k[1], k[2]) <= 1
    /\ (ev.op = "req" /\ ev.path = "trash" /\ Has(ev.doing0, ev.dom)) =>
          (~ev.query /\ doing[ev.fam] = ev.doing0)

\* A second request hit the trash while the refresh of the first was in flight.
C7_Witness ==
    /\ ev.op = "req" /\ ev.path = "trash" /\ Has(ev.doing0, ev.dom)
    /\ Refreshes(ev.fam, ev.dom) = 1

\* C8, as claimed: after a refresh completed with an acceptable record that
\* carries expire, the next request for the key is answered with that record
\* tagged Cache.
AfterRefresh ==
    /\ ev.op = "req" /\ HasLatest
    /\ Latest.id \in refreshed /\ Latest.ok /\ Latest.expire # NoTime
C8_NextIsCache == AfterRefresh => ev.sent = <<Send(ev.c, Latest, "Cache")>>

\* C8, amended: a trash hit is answered at once with the trash record tagged
\* Trash and the caller is not queued; an acceptable record with expire
\* removes the trash entry and enters the cache when it is handled; and a
\* request handled before that record's expire instant is answered with it
\* tagged Cache.
C8_SelfHealing ==
    /\ (ev.op = "req" /\ ~Has(ev.cache0, ev.dom) /\ Has(ev.trash0, ev.dom)) =>
          /\ ev.sent = <<Send(ev.c, ev.trash0[ev.dom].inner, "Trash")>>
          /\ replies[ev.c] = ev.sent
          /\ ev.c \notin Range(doing[ev.fam][ev.dom])
    /\ (ev.op = "rsp" /\ ev.rec.ok /\ ev.rec.expire # NoTime) =>
          /\ ~Has(trash[ev.fam], ev.dom)
          /\ Has(cache[ev.fam], ev.dom) /\ cache[ev.fam][ev.dom].inner = ev.rec
    /\ (AfterRefresh /\ Latest.expire > ev.at) =>
          ev.sent = <<Send(ev.c, Latest, "Cache")>>

\* A refresh has completed and a later request is answered from the cache.
C8_Witness ==
    AfterRefresh /\ Latest.expire > ev.at /\ ev.sent = <<Send(ev.c, Latest, "Cache")>>

\* C9 (Failure fallback): when a failed response is handled for a key that
\* has a trash entry, every waiter queued for the key is sent the trash record
\* tagged Trash, and the key's cache entry, trash entry and expiry slots are
\* what they were before.
C9_FailureFallback ==
    (ev.op = "rsp" /\ ~ev.rec.ok /\ Has(ev.trash0, ev.dom)) =>
       /\ \A j \in 1..Len(Waiters0) :
             SentTo(Waiters0[j])
               = <<Send(Waiters0[j], ev.trash0[ev.dom].inner, "Trash")>>
       /\ Len(ev.sent) = Len(Waiters0)
       /\ cache[ev.fam] = ev.cache0
       /\ trash[ev.fam] = ev.trash0
       /\ ~Has(doing[ev.fam], ev.dom)

C9_Witness ==
    ev.op = "rsp" /\ ~ev.rec.ok /\ Has(ev.trash0, ev.dom) /\ Has(ev.doing0, ev.dom)

\* C10 (Failure without fallback): when a failed response is handled for a key
\* that has no trash entry, every waiter queued for the key is sent that failed
\* record, once, as a reply on its channel.
C10_FailureDelivered ==
    (ev.op = "rsp" /\ ~ev.rec.ok /\ ~Has(ev.trash0, ev.dom)) =>
       \A j \in 1..Len(Waiters0) :
          /\ Len(SentTo(Waiters0[j])) = 1
          /\ SentTo(Waiters0[j])[1].rec = ev.rec
          /\ SentTo(Waiters0[j])[1].src \in {"Query", "Cache"}
          /\ replies[Waiters0[j]] = SentTo(Waiters0[j])

C10_Witness ==
    ev.op = "rsp" /\ ~ev.rec.ok /\ ~Has(ev.trash0, ev.dom) /\ Len(Waiters0) >= 2

\* A waiter joins only while its key has no trash entry, and a trash entry can
\* only appear after the response that releases the waiter: a masked failure
\* finds no waiter queued.
NoWaiterIsMasked ==
    ~(ev.op = "rsp" /\ ev.path = "fallback" /\ Len(Waiters0) > 0)

\* C11: a record that is not acceptable is not put in the cache when it is
\* handled; no later request is answered from the cache with such a record;
\* and the next request for the key, when it finds no trash entry, asks the
\* driver.
AfterFailure ==
    /\ ev.op = "req" /\ HasLatest /\ ~Latest.ok
    /\ ~Has(ev.trash0, ev.dom) /\ ~Has(ev.doing0, ev.dom)
FromOldDriver == ev.op = "rsp" /\ ev.from # ev.driver0
C12_HotReload ==
    /\ \A k \in Keys :
          /\ InFlight(k[1], k[2]) <= 1
          /\ Has(doing[k[1]], k[2]) <=> InFlight(k[1], k[2]) = 1
    /\ FromOldDriver =>
          /\ Has(ev.doing0, ev.dom)
          /\ Len(ev.sent) = Len(Waiters0)
          /\ \A j \in 1..Len(Waiters0) :
                /\ Len(SentTo(Waiters0[j])) = 1
                /\ replies[Waiters0[j]] = SentTo(Waiters0[j])
                /\ SentTo(Waiters0[j])[1].rec =
                      IF ev.path = "common" THEN ev.rec ELSE ev.trash0[ev.dom].inner
          /\ ~Has(doing[ev.fam], ev.dom)
          /\ (ev.path = "common" /\ ev.rec.expire # NoTime) =>
                (Has(cache[ev.fam], ev.dom) /\ cache[ev.fam][ev.dom].inner = ev.rec)
          /\ (ev.path = "fallback" \/ ev.rec.expire = NoTime) =>
                cache[ev.fam] = ev.cache0

\* Two callers waited for a query of the replaced driver; its record is cached.
C12_Witness ==
    /\ FromOldDriver /\ Len(Waiters0) >= 2 /\ ev.rec.expire # NoTime
    /\ Has(cache[ev.fam], ev.dom)

\* C13 (Rejected Update): the step that takes an Update command from the
\* control channel leaves the cache, trash and in-flight maps and the expiry
\* queues as they were, whether or not the driver can be built; and when it
\* cannot, the driver and the config stay as they were too.
TakesUpdate ==
    pc = "ctl" /\ ctlQ # <<>> /\ Head(ctlQ).kind = "Update" /\ ctlQ' = Tail(ctlQ)
C13_UpdateKeepsState ==
    [][TakesUpdate =>
         /\ UNCHANGED <<cache, trash, doing, expired>>
         /\ ~Head(ctlQ).config.ok => UNCHANGED <<driver, config>>
         /\ Head(ctlQ).config.ok =>
               (driver' = Head(ctlQ).config.drv /\ config' = Head(ctlQ).config)]_vars

\* An Update was rejected while a record was cached and a query in flight.
C13_Witness ==
    /\ ev.op = "ctl" /\ ev.path = "Update" /\ ~ev.cmd.ok
    /\ driver = ev.driver0 /\ driver # NoDriver /\ config.drv = driver
    /\ \E f \in Families : cache[f] # EmptyMap
    /\ \E f \in Families : doing[f] # EmptyMap

\* C14, as claimed: a command on the control channel is consumed without any
\* later request, response or timer event; so whenever the task is suspended
\* and has not been woken, no command is left on the channel.
C14_CommandConsumed == (pc = "idle" /\ ~woken) => ctlQ = <<>>

C16_NeverErr == pc # "err"

\* C16, amended: the future completes with an error only from a poll that
\* finds no driver and cannot build one from the config, before the loop is
\* entered; a failed answer and a rejected Update are handled inside the loop,
\* which goes on; and the missing-driver branch is never reached.
C16_ErrOnlyWithoutDriver ==
    /\ pc = "err" => (ev.op = "poll" /\ driver = NoDriver /\ ~config.ok /\ nq = 0)
    /\ driver # NoDriver => pc # "err"
    /\ pc # "panic"
    /\ (ev.op = "rsp" /\ ~ev.rec.ok) => pc = "rsp"
    /\ (ev.op = "ctl" /\ ev.path = "Update" /\ ~ev.cmd.ok) =>
          (pc = "rsp" /\ driver = ev.driver0 /\ driver # NoDriver)

\* An Update is rejected after a failed answer went to its caller, and the
\* actor goes on.
C16_Witness ==
    /\ ev.op = "ctl" /\ ev.path = "Update" /\ ~ev.cmd.ok /\ pc = "rsp"
    /\ \E c \in Callers : \E j \in 1..Len(replies[c]) : ~replies[c][j].rec.ok

\* C17 (Abandoned waiters). A response is handled for a key some of whose
\* waiters have dropped their receiver: the query was not cancelled, every
\* waiter that still listens has the record as its one reply, and a record
\* that carries expire is in the cache.
AbandonedRsp ==
    ev.op = "rsp" /\ \E j \in 1..Len(Waiters0) : Waiters0[j] \in gone
AbandonedServed ==
    /\ \A k \in Keys : Has(doing[k[1]], k[2]) => InFlight(k[1], k[2]) = 1
    /\ AbandonedRsp =>
          /\ \A j \in 1..Len(Waiters0) :
                /\ Len(SentTo(Waiters0[j])) = 1
                /\ SentTo(Waiters0[j])[1].rec = ev.rec
                /\ replies[Waiters0[j]] =
                      IF Waiters0[j] \in gone THEN <<>> ELSE SentTo(Waiters0[j])
          /\ ev.rec.expire # NoTime =>
                (Has(cache[ev.fam], ev.dom) /\ cache[ev.fam][ev.dom].inner = ev.rec)
AfterAbandoned ==
    /\ ev.op = "req" /\ HasLatest
    /\ Latest.id \in abandoned /\ Latest.expire # NoTime

\* C17, as claimed: and the next request for the key is a Cache hit.
C17_NextIsCacheHit ==
    /\ AbandonedServed
    /\ AfterAbandoned => ev.sent = <<Send(ev.c, Latest, "Cache")>>

\* C17, amended: and a request for the key handled before the record's
\* expire instant is a Cache hit.
C17_AbandonedWaiters ==
    /\ AbandonedServed
    /\ (AfterAbandoned /\ Latest.expire > ev.at) =>
          ev.sent = <<Send(ev.c, Latest, "Cache")>>

\* One waiter gave up, another got the record, and a later caller is answered
\* from the cache.
C17_Witness ==
    /\ AfterAbandoned /\ Latest.expire > ev.at
    /\ ev.sent = <<Send(ev.c, Latest, "Cache")>>
    /\ ev.c \notin gone /\ replies[ev.c] = ev.sent
    /\ \E c \in Callers \ gone : c # ev.c /\ replies[c] # <<>> /\ replies[c][1].rec = Latest

\* C18 (Fan-out provenance): when the common path of handle_rsp finds N >= 1
\* waiters queued, every waiter is sent exactly one reply, the waiter that
\* joined last is sent the tag Query and the N-1 others the tag Cache.
FanoutCommon == ev.op = "rsp" /\ ev.path = "common" /\ Len(Waiters0) >= 1
C18_FanoutProvenance ==
    FanoutCommon =>
       LET n == Len(Waiters0)
       IN /\ Len(ev.sent) = n
          /\ \A j \in 1..n :
                /\ Len(SentTo(Waiters0[j])) = 1
                /\ replies[Waiters0[j]] = SentTo(Waiters0[j])
                /\ SentTo(Waiters0[j])[1].src = IF j = n THEN "Query" ELSE "Cache"
          /\ Cardinality({j \in 1..n : ev.sent[j].src = "Query"}) = 1
          /\ Cardinality({j \in 1..n : ev.sent[j].src = "Cache"}) = n - 1

\* Three waiters: the third has the tag Query, the first and second Cache.
C18_Witness ==
    /\ FanoutCommon /\ Len(Waiters0) = 3
    /\ replies[Waiters0[3]][1].src = "Query"
    /\ replies[Waiters0[1]][1].src = "Cache" /\ replies[Waiters0[2]][1].src = "Cache"

\* C20 (Delivery order), as claimed: the replies of a completed query are sent
\* to its waiters in the order in which they joined.
C20_JoinOrder ==
    (ev.op = "rsp" /\ Len(Waiters0) >= 1) =>
       [j \in 1..Len(ev.sent) |-> ev.sent[j].c] = Waiters0

\* C19 (Chunked encoder): when the encoder completes, the bytes written are
\* the first buffer behind its length in hexadecimal and CRLF, every later
\* buffer behind CRLF, its length in hexadecimal and CRLF, then "0" CRLF for an
\* empty body and CRLF "0" CRLF otherwise, then one more CRLF exactly when the
\* encoder was built with no trailer; the count returned is the number of
\* bytes written; and finished() is true.
HexOf(len) ==
    CASE len = 1 -> <<49>>
      [] len = 10 -> <<97>>
      [] len = 18 -> <<49, 50>>
RECURSIVE ChunksOf(_, _)
ChunksOf(ds, n) ==
    IF n = 0 THEN <<>>
    ELSE ChunksOf(ds, n - 1)
           \o (IF n = 1 THEN <<>> ELSE <<13, 10>>)
           \o HexOf(Len(ds[n])) \o <<13, 10>> \o ds[n]
Encoded(ds, no_trailer) ==
    ChunksOf(ds, Len(ds))
      \o (IF ds = <<>> THEN <<48, 13, 10>> ELSE <<13, 10, 48, 13, 10>>)
      \o (IF no_trailer THEN <<13, 10>> ELSE <<>>)
C19_ChunkedEncoding ==
    enc.st = "ok" =>
       /\ enc.out = Encoded(enc.input, enc.no_trailer)
       /\ enc.ret = Len(enc.out)
       /\ finished(enc)

\* Two buffers, of 18 bytes and of 10, were encoded with no trailer, in more
\* than one poll.
C19_Witness ==
    /\ enc.st = "ok" /\ enc.no_trailer /\ enc.yield_size = 4
    /\ Len(enc.input) = 2 /\ Len(enc.input[1]) = 18 /\ Len(enc.input[2]) = 10
    /\ enc.ret = 44 /\ enc.copy_this_round = 0

\* The steps of an iteration after its control step.
Processing == pc \in {"rsp", "exp4", "exp6", "req"}

\* C21 (Command first): in an iteration whose control step applied a
\* successful Update, the new driver and config are in place while the
\* responses, expiries and requests of the iteration are handled, each of
\* those handlers ran with the new driver, and a query dispatched by a request
\* of the iteration goes to the new driver, with the new config.
C21_CommandFirst ==
    /\ (Processing /\ iter.cmd.ok) => (driver = iter.cmd.drv /\ config = iter.cmd)
    /\ (ev.op \in {"rsp", "exp", "req"} /\ ev.iter.cmd.ok) =>
          ev.driver0 = ev.iter.cmd.drv
    /\ (ev.op = "req" /\ ev.query /\ ev.iter.cmd.ok) =>
          /\ config = ev.iter.cmd
          /\ \E q \in querying : q.id = nq /\ q.drv = ev.iter.cmd.drv

\* A query went to the first driver; an Update then swapped the driver and a
\* request of the same iteration dispatched a query to the new one.
C21_Witness ==
    /\ ev.op = "req" /\ ev.query /\ ev.iter.cmd.ok /\ ev.iter.cmd.drv = 2
    /\ nq >= 2
    /\ \E q \in querying : q.id = nq /\ q.drv = 2
\* The step that takes Quit from the control channel, and the state it leaves.
TakesQuit ==
    pc = "ctl" /\ ctlQ # <<>> /\ Head(ctlQ).kind = "Quit" /\ ctlQ' = Tail(ctlQ)
AfterQuit == pc = "done" /\ ev.op = "ctl" /\ ev.path = "Quit"

\* C22, as claimed: the actor terminates on Quit only after the iteration is
\* finished, so it leaves no driver response that was ready and no timer that
\* had fired unhandled.
C22_QuitFinishesIteration ==
    AfterQuit =>
       /\ rspQ = <<>>
       /\ \A f \in Families : {s \in expired[f] : s.at <= now} = {}

\* C22, amended: the step that takes Quit leaves the loop at once; the future
\* is complete with Ok and the responses, timers, requests, maps and reply
\* channels are as they were when Quit was taken.
C22_QuitLeavesAtOnce ==
    [][TakesQuit =>
         /\ pc' = "done"
         /\ UNCHANGED <<rspQ, reqQ, querying, cache, trash, doing, expired,
                        replies, driver, config>>]_vars

\* Quit was taken while the answer for a waiting caller was ready: the caller
\* has no reply and the answer is still on the response channel.
C22_Witness ==
    /\ AfterQuit /\ rspQ # <<>>
    /\ Has(doing[4], "a")
    /\ \E c \in Callers : c \in Range(doing[4]["a"]) /\ replies[c] = <<>>
\* C23 (Fairness bound), as claimed: an iteration never handles more than
\* batch_request_count requests, and when the request loop hands over to the
\* next iteration it has handled min(queued, batch_request_count) of the
\* requests that were queued for it.
Min(a, b) == IF a <= b THEN a ELSE b
C23_BatchHandled ==
    /\ pc = "req" => cnt <= config.batch
    /\ (ev.op = "req" /\ pc = "ctl") =>
          cnt = Min(cnt + Len(reqQ), config.batch)
\* The timers of family f that have fired: their instant is not in the future.
Due(f) == {s \in expired[f] : s.at <= now}

\* C24 (Fixed priority): an expiry is handled, and the expiry and request
\* steps are entered, only with no driver response left ready; an IPv6 expiry
\* is handled, and the IPv6 and request steps are entered, only with no fired
\* IPv4 timer left; and a request is handled only with no fired timer left.
C24_FixedPriority ==
    /\ pc \in {"exp4", "exp6", "req"} => rspQ = <<>>
    /\ pc \in {"exp6", "req"} => Due(4) = {}
    /\ pc = "req" => Due(6) = {}
    /\ ev.op \in {"exp", "req"} => rspQ = <<>>
    /\ (ev.op = "exp" /\ ev.fam = 6) => Due(4) = {}
    /\ ev.op = "req" => (Due(4) = {} /\ Due(6) = {})

\* A response has just been handled while timers of both families had fired.
C24_Witness ==
    ev.op = "rsp" /\ pc = "rsp" /\ Due(4) # {} /\ Due(6) # {}
\* C25 (Trash sweep), as claimed: the trash has been swept for every
\* iteration whose responses, expiries and requests are being handled, and
\* when the response step begins no trash entry has its vanish instant at or
\* before the current time.
C25_SweepEveryIteration ==
    /\ Processing => iter.swept
    /\ pc = "rsp" =>
          \A f \in Families : \A d \in DOMAIN trash[f] : trash[f][d].vanish_at > now
\* The timers scheduled for domain d of family f.
TimersOf(f, d) == {s \in expired[f] : s.dom = d}

\* C26 (Timer/cache bijection): for each family the domains with a scheduled
\* timer are the domains with a cache entry, a cache entry has one timer, the
\* one its expire_key names, scheduled at its expire_at, and handle_expired
\* for a domain with no cache entry leaves the cache and the trash as they are.
C26_TimerCacheBijection ==
    \A f \in Families :
       /\ {s.dom : s \in expired[f]} = DOMAIN cache[f]
       /\ Cardinality(expired[f]) = Cardinality(DOMAIN cache[f])
       /\ \A d \in DOMAIN cache[f] :
             TimersOf(f, d) = {[key |-> cache[f][d].expire_key, dom |-> d,
                               at |-> cache[f][d].expire_at]}
       /\ \A d \in Domains \ DOMAIN cache[f] :
             handle_expired(cache[f], trash[f], d)
               = [cache |-> cache[f], trash |-> trash[f]]

\* Both families hold an entry, with timers at different instants, and the
\* timer of one of them has fired.
C26_Witness ==
    /\ Has(cache[4], "a") /\ Has(cache[6], "a")
    /\ cache[4]["a"].expire_at # cache[6]["a"].expire_at
    /\ TimersOf(4, "a") # {} /\ TimersOf(6, "a") # {}
    /\ Due(4) \cup Due(6) # {}
\* C27 (Upsert on an existing key): when update_cache takes a record for a
\* domain that has a cache entry, the entry holds the new record and its
\* expire instant afterwards and keeps its timer key; the timer of that key is
\* at the new instant, the other timers are as they were and the number of
\* timers is the same; and an entry is removed by an expiry only at or after
\* the expire instant it holds then.
UpsertsExisting == ev'.op = "upsert" /\ Has(cache[ev'.fam], ev'.dom)
C27_UpsertMovesTimer ==
    /\ [][UpsertsExisting =>
            LET f == ev'.fam
                d == ev'.dom
                old == cache[f][d]
                new == cache'[f][d]
            IN /\ new = [inner |-> ev'.rec, expire_at |-> ev'.rec.expire,
                         expire_key |-> old.expire_key]
               /\ DOMAIN cache'[f] = DOMAIN cache[f]
               /\ Cardinality(expired'[f]) = Cardinality(expired[f])
               /\ {s \in expired'[f] : s.dom = d}
                     = {[key |-> old.expire_key, dom |-> d, at |-> ev'.rec.expire]}
               /\ {s \in expired'[f] : s.dom # d} = {s \in expired[f] : s.dom # d}]_vars
    /\ [](ev.op = "exp" =>
            (Has(ev.cache0, ev.dom) /\ ev.cache0[ev.dom].expire_at <= ev.at))

\* The timer of an entry had fired and was not yet taken when a record with a
\* later expire arrived: the entry is still there, with the new record and
\* its timer in the future, next to the entry of the other domain.
C27_Witness ==
    /\ ev.op = "upsert" /\ Has(ev.cache0, ev.dom)
    /\ ev.cache0[ev.dom].expire_at <= now /\ now < ev.rec.expire
    /\ cache[ev.fam][ev.dom].inner = ev.rec
    /\ Cardinality(expired[ev.fam]) = 2 /\ Due(ev.fam) = {}
\* C28 (Cache/trash exclusion): no key has a cache entry and a trash entry at
\* once; after a response put a record in the cache the key has no trash
\* entry; and after an expiry was handled, whether or not it demoted the
\* record into trash, the key has no cache entry.
C28_CacheTrashExclusion ==
    /\ \A k \in Keys : ~(Has(cache[k[1]], k[2]) /\ Has(trash[k[1]], k[2]))
    /\ (ev.op = "rsp" /\ cache[ev.fam] # ev.cache0) => ~Has(trash[ev.fam], ev.dom)
    /\ ev.op = "exp" => ~Has(cache[ev.fam], ev.dom)

\* The answer of a background refresh replaced the trash entry by a cache
\* entry.
C28_Witness ==
    /\ ev.op = "rsp" /\ Has(ev.trash0, ev.dom) /\ ev.rec.id \in refreshed
    /\ Has(cache[ev.fam], ev.dom) /\ cache[ev.fam][ev.dom].inner = ev.rec
    /\ ~Has(trash[ev.fam], ev.dom)
\* C29 (Expiry): after an expiry is handled the key has no cache entry; the
\* trash holds the record of the removed entry, with vanish_at its vanish
\* instant, if the record carries vanish, and is as it was, with no entry for
\* the key, if it does not; and a request handled once the expire instant of
\* the key's latest record has passed, that record carrying no vanish, finds
\* neither a cache nor a trash entry.
DroppedAtExpiry ==
    /\ ev.op = "req" /\ HasLatest
    /\ Latest.expire # NoTime /\ Latest.vanish = NoTime /\ Latest.expire <= ev.at
C29_ExpiryDemotes ==
    /\ ev.op = "exp" =>
          /\ Has(ev.cache0, ev.dom)
          /\ ~Has(cache[ev.fam], ev.dom)
          /\ LET r == ev.cache0[ev.dom].inner
             IN IF r.vanish # NoTime
                THEN /\ Has(trash[ev.fam], ev.dom)
                     /\ trash[ev.fam][ev.dom] = [inner |-> r, vanish_at |-> r.vanish]
                ELSE /\ trash[ev.fam] = ev.trash0
                     /\ ~Has(trash[ev.fam], ev.dom)
    /\ DroppedAtExpiry =>
          /\ ~Has(ev.cache0, ev.dom) /\ ~Has(ev.trash0, ev.dom)
          /\ ev.path \in {"start", "join"}

\* A record without vanish expired and the next request asked the driver.
C29_Witness ==
    DroppedAtExpiry /\ ev.path = "start" /\ ev.query /\ ev.sent = <<>>
\* The ids of the queries of a key that are in flight.
InFlightIds(f, d) ==
    {q.id : q \in Unanswered(f, d)}
      \cup {Unhandled(f, d)[j].record.id : j \in 1..Len(Unhandled(f, d))}

\* C30 (Waiter lists): an in-flight entry with an empty waiter list belongs to
\* a query that a trash hit dispatched as a background refresh; the entry of
\* any other query holds at least one waiter; a miss that starts a query
\* leaves the list with its caller, a join appends its caller to the list, and
\* only a trash hit that finds no entry creates an empty list.
C30_EmptyOnlyForRefresh ==
    /\ \A k \in Keys :
          Has(doing[k[1]], k[2]) =>
             /\ InFlightIds(k[1], k[2]) # {}
             /\ doing[k[1]][k[2]] = <<>> => InFlightIds(k[1], k[2]) \subseteq refreshed
             /\ InFlightIds(k[1], k[2]) \cap refreshed = {} =>
                   Len(doing[k[1]][k[2]]) >= 1
    /\ (ev.op = "req" /\ ev.path = "start") => doing[ev.fam][ev.dom] = <<ev.c>>
    /\ (ev.op = "req" /\ ev.path = "join") =>
          doing[ev.fam][ev.dom] = Append(ev.doing0[ev.dom], ev.c)
    /\ (/\ ev.op = "req" /\ ~Has(ev.doing0, ev.dom)
        /\ Has(doing[ev.fam], ev.dom) /\ doing[ev.fam][ev.dom] = <<>>) =>
          (ev.path = "trash" /\ nq \in refreshed)

\* The answer of a background refresh waits on the response channel: the
\* entry of its key is there, with no waiter, and a caller has the stale
\* record.
C30_Witness ==
    /\ Has(doing[4], "a") /\ doing[4]["a"] = <<>>
    /\ Len(Unhandled(4, "a")) = 1 /\ Unhandled(4, "a")[1].record.id \in refreshed
    /\ \E c \in Callers : replies[c] # <<>> /\ replies[c][1].src = "Trash"
\* C31 (Missing driver): whenever a request is handled the driver is there,
\* the unreachable!() branch is never taken, and a request that creates an
\* in-flight entry dispatches a driver query for it.
C31_DriverPresent ==
    /\ pc # "panic"
    /\ Processing => driver # NoDriver
    /\ ev.op = "req" =>
          /\ ev.driver0 # NoDriver
          /\ ev.path # "unreachable"
          /\ (~Has(ev.doing0, ev.dom) /\ Has(doing[ev.fam], ev.dom)) =>
                (ev.query /\ \E q \in querying : q.id = nq /\ q.drv = ev.driver0)

\* An Update whose driver cannot be built was taken, and a request of the
\* same iteration started a query with the driver that was kept.
C31_Witness ==
    /\ ev.op = "req" /\ ev.path = "start" /\ ev.query
    /\ ev.iter.cmd # NoConfig /\ ~ev.iter.cmd.ok
    /\ ev.driver0 # NoDriver
\* C32 (Masking is not permanent): after a failed response was masked by the
\* trash record the key has no in-flight entry and no query in flight; and a
\* request that hits the trash and finds no in-flight entry dispatches a
\* refresh query, whether or not an earlier refresh of the key failed.
C32_MaskingNotPermanent ==
    /\ (ev.op = "rsp" /\ ev.path = "fallback") =>
          (~Has(doing[ev.fam], ev.dom) /\ InFlight(ev.fam, ev.dom) = 0)
    /\ (ev.op = "req" /\ ev.path = "trash" /\ ~Has(ev.doing0, ev.dom)) =>
          /\ ev.query /\ nq \in refreshed
          /\ InFlight(ev.fam, ev.dom) = 1
          /\ doing[ev.fam][ev.dom] = <<>>

\* The refresh started by one trash hit failed and was masked; the next trash
\* hit started another refresh.
C32_Witness ==
    /\ ev.op = "req" /\ ev.path = "trash" /\ ev.query
    /\ nq = 3 /\ refreshed = {2, 3}
    /\ HasLatest /\ Latest.id = 1

\* C33: the gauges are refreshed at most once in an iteration, exactly when the
\* iteration handled a response or an expiry, and in an iteration that
\* refreshed them they equal the lengths of the maps after each of its events.
Refreshed == iter.gauged = 1 \/ (ev.op = "req" /\ ev.iter.gauged = 1)
C33_GaugesFollowMaps ==
    /\ iter.gauged <= 1
    /\ pc = "req" => (iter.gauged = 1 <=> iter.update_mem_stats)
    /\ Refreshed => mem = update_mem_stats(cache, doing, trash)

\* C34: a caller gets at most one reply; a request the actor has handled has
\* its reply or its sender waits in the in-flight map; while waiters are queued
\* for a key exactly one query of the key is outstanding; and, the driver
\* answering every query, each waiter eventually has its one reply.
IsWaiting(c) ==
    \E f \in Families, d \in Domains :
       Has(doing[f], d) /\ \E j \in 1..Len(doing[f][d]) : doing[f][d][j] = c
C34_ReplyLiveness ==
    /\ [](\A c \in Callers : Len(replies[c]) <= 1 /\ ~(IsWaiting(c) /\ replies[c] # <<>>))
    /\ [](ev.op = "req" => (IsWaiting(ev.c) \/ Len(replies[ev.c]) = 1))
    /\ [](\A f \in Families, d \in Domains :
            (Has(doing[f], d) /\ doing[f][d] # <<>>) => InFlight(f, d) = 1)
    /\ \A c \in Callers : IsWaiting(c) ~> (Len(replies[c]) = 1)
C34_Witness ==
    /\ ev.op = "rsp" /\ Len(Waiters0) = 2 /\ ~ev.rec.ok /\ ev.path = "common"
    /\ \A c \in Callers : Len(replies[c]) = 1

\* C35: whatever batch_request_count (1 or more) is configured, a poll of the
\* actor comes to its return, and the requests queued on the request channel
\* of an actor that has its driver are eventually handled.
InPoll == pc \in {"ctl", "rsp", "exp4", "exp6", "req"}
C35_LoopProgress ==
    /\ InPoll ~> ~InPoll
    /\ (reqQ # <<>> /\ driver # NoDriver) ~> (reqQ = <<>>)

\* C36: handling a response, a request or a fired slot of one family leaves
\* the cache, the trash, the in-flight map and the expiry queue of the other
\* family as they were.
Untouched(f) ==
    /\ cache'[f] = cache[f]
    /\ trash'[f] = trash[f]
    /\ doing'[f] = doing[f]
    /\ expired'[f] = expired[f]
Other(f) == IF f = 4 THEN 6 ELSE 4
C36_FamilyIsolation ==
    [][/\ (pc = "rsp" /\ rspQ # <<>>) => Untouched(Other(Head(rspQ).fam))
       /\ (pc = "req" /\ reqQ # <<>>) => Untouched(Other(Head(reqQ).fam))
       /\ pc = "exp4" => Untouched(6)
       /\ pc = "exp6" => Untouched(4)]_vars
C36_Witness ==
    /\ ev.op = "rsp" /\ ev.fam = 6 /\ ev.dom = "a"
    /\ Has(cache[6], "a") /\ ~Has(cache[4], "a") /\ Has(doing[4], "a")

\* C37: no domain of a family has a cache entry and an in-flight entry at the
\* same time, and a response handled for a domain finds no cache entry of it.
C37_CacheDoingExclusion ==
    /\ \A f \in Families, d \in Domains : ~(Has(cache[f], d) /\ Has(doing[f], d))
    /\ ev.op = "rsp" => ~Has(ev.cache0, ev.dom)
C37_Witness ==
    /\ ev.op = "rsp" /\ ev.fam = 4 /\ ev.rec.expire # NoTime
    /\ Has(ev.doing0, "a") /\ ev.doing0["a"] = <<>>
    /\ Has(cache[4], "a") /\ ~Has(doing[4], "a") /\ Has(ev.trash0, "a")

\* C38: the step that takes Quit stops the actor; an actor that has stopped,
\* on Quit or on the closure of a channel, has sent nothing to the callers
\* that wait in the in-flight maps or whose request is still on the request
\* channel, and from then on it handles no response and sends no reply.
IsQueued(c) == \E j \in 1..Len(reqQ) : reqQ[j].sender = c
C38_ShutdownDropsWaiters ==
    /\ []((ev.op = "ctl" /\ ev.path = "Quit") => pc = "done")
    /\ [](pc = "done" =>
            \A c \in Callers : (IsWaiting(c) \/ IsQueued(c)) => replies[c] = <<>>)
    /\ [][pc = "done" =>
            /\ pc' = "done" /\ ev'.op = "none"
            /\ UNCHANGED <<replies, rspQ, reqQ, doing, cache, trash>>]_vars
C38_Witness ==
    /\ pc = "done" /\ ~ctlOpen /\ ev.op = "none"
    /\ IsWaiting(1) /\ replies[1] = <<>> /\ rspQ # <<>>

\* The control step of an actor whose control senders have all been dropped.
CtlStepClosed == pc = "ctl" /\ ~ctlOpen /\ pc' # "ctl"

\* C39, as claimed: once every control sender is dropped the control step at
\* the top of the next iteration leaves the loop and the future is complete
\* with Ok.
C39_ClosureStopsNextIteration ==
    [][CtlStepClosed => pc' = "done"]_vars

\* C39, amended: the commands sent before the last sender was dropped are
\* still received, one at the top of each iteration; the control step that
\* finds the channel closed and empty leaves the loop at once, whatever is
\* queued or waiting, and handles nothing.
C39_ClosedAndDrainedStops ==
    [][CtlStepClosed =>
         IF ctlQ = <<>>
         THEN /\ pc' = "done"
              /\ UNCHANGED <<reqQ, rspQ, querying, cache, trash, doing, expired,
                             replies, driver, config>>
         ELSE /\ ctlQ' = Tail(ctlQ)
              /\ pc' = IF Head(ctlQ).kind = "Quit" THEN "done" ELSE "rsp"]_vars
C39_Witness ==
    /\ pc = "done" /\ ~ctlOpen /\ ev.op = "none" /\ ncmd = 1 /\ config.batch = 2
    /\ reqOpen /\ reqQ # <<>> /\ driver # NoDriver

====
